---- MODULE Spec2Model ----
(***************************************************************************)
(* A model of snap7.partner.Partner (src/snap7/partner.py): one Session    *)
(* (the Python object), the Transport Engine object its handle designates, *)
(* the link to the echoing peer of the tests (src/test/test_partner.py,    *)
(* passive_partner_echo), which sends every packet back, and the engine's  *)
(* worker, which completes send jobs and invokes the registered callback   *)
(* adapters concurrently with the caller's thread.                         *)
(*                                                                         *)
(* The engine (the snap7 shared library) is not part of the repository:    *)
(* the engine's side of each call states what the operation contract says  *)
(* of it, and leaves every result the contract leaves open to a            *)
(* nondeterministic choice.  The engine variables describe the engine      *)
(* object that the Session's current handle designates; an object whose    *)
(* handle create() overwrote stays allocated in `objs`, but its inner      *)
(* state is not kept.                                                      *)
(*                                                                         *)
(* Every action writes `ret`: the operation that ran last, how it ended,   *)
(* what it returned and the engine calls it made.                          *)
(***************************************************************************)
EXTENDS Integers, Sequences, FiniteSets, TLC

\* ------------------------------------------------------------- bounds
MaxHandles == 2     \* engine objects Par_Create can allocate in one run
MaxLen == 1         \* longest payload the link carries
MaxStat == 4        \* cap of the sum of the statistics counters
MaxAdapters == 2    \* callback adapters created in one run

\* ---------------------------------------------------------- constants
buffer_size == 65535
err_Par_Recv_Timeout == 11534336   \* 0x00B00000
err_Par_Send_Timeout == 10485760   \* 0x00A00000
invalid_call == -2                 \* the "invalid call" sentinel of the polls
job_pending == 1                   \* a poll's answer while nothing is complete
errOther == 3145728                \* any other non-zero engine result

NULL == 0                          \* the null handle, and Python's None

VARIABLES
    alive,          \* the Session object has not been finalized
    pointer,        \* self._pointer: NULL or a handle
    recv_buffer,    \* self._recv_buffer: the bytes written so far (the rest are 0)
    recv_callback,  \* self._recv_callback: NULL or the adapter the Session keeps
    send_callback,  \* self._send_callback
    pc,             \* the caller's position inside a method the worker can interleave
    ret,            \* what the last operation did
    held,           \* the delivered payload the caller still holds
    objs,           \* engine: per handle, its state and how often it was released
    active,         \* engine object: role
    status,         \* engine object: 0 stopped, 1 connecting, 2 waiting, 3 linked
    cfg,            \* engine object: addresses and TSAPs of the last accepted StartTo
    job,            \* engine object: the send job
    reg_recv,       \* engine object: the registered recv adapter (a raw pointer)
    reg_send,       \* engine object: the registered send adapter
    stats,          \* engine object: <<sent, recv, send errors, recv errors>>
    wire_in,        \* the packet the peer echoed and the Session has not received
    adapters,       \* adapters created so far (object identities)
    params,         \* engine object: the value of each parameter
    last_set        \* per parameter, the value the last successful set_param was given

sessVars == <<alive, pointer, recv_buffer, recv_callback, send_callback, pc, held>>
objVars == <<active, status, cfg, job, reg_recv, reg_send, stats>>
paramVars == <<params, last_set>>
vars == <<sessVars, ret, objs, objVars, wire_in, adapters, paramVars>>

Handles == 1..MaxHandles
NoCfg == <<>>
\* The send job of an engine object: none yet, pending, or done with a result;
\* `by` is the call that made it, b_send or as_b_send.
NoJob == [state |-> "none", by |-> "", result |-> 0, rid |-> 0, size |-> 0,
          data |-> <<>>]
DoneJob(by, code) == [state |-> "done", by |-> by, result |-> code, rid |-> 0,
                      size |-> 0, data |-> <<>>]
ZeroStats == <<0, 0, 0, 0>>

\* What an operation did: how it ended, what it returned, and the engine calls
\* it made, in order.
Result(op, args, outcome, value, calls) ==
    [op |-> op, args |-> args, outcome |-> outcome, value |-> value, calls |-> calls]
Call(fn, handle) == [fn |-> fn, handle |-> handle]

\* ------------------------------------------------------------- engine
\* The handle designates an allocated engine object that was not released.
Live(h) == h \in Handles /\ objs[h].state = "live"

FreshHandles == {h \in Handles : objs[h].state = "unallocated"}

\* snap7.types.word: ctypes c_uint16.  (snap7.types.longword, c_uint32, keeps
\* every routing id of the model as it is: they are drawn from 0..2^31-1.)
word(x) == x % 65536

\* --------------------------------------------------------- parameters
\* Parameter numbers of snap7.types: a port the engine lets a stopped partner
\* set, a timeout and a reference that can be set at any time, and a parameter
\* of servers, which a partner does not have.
RemotePort == 2
PingTimeout == 3
SrcRef == 7
MaxClients == 11
ParamNumbers == {RemotePort, PingTimeout, SrcRef, MaxClients}

\* snap7.types.param_types: the ctypes type of each parameter.
param_types(n) == IF n \in {RemotePort, SrcRef} THEN "c_uint16" ELSE "c_int32"

\* type_(value).value: a c_uint16 keeps the low 16 bits.  The values given to
\* a c_int32 are within its range, where it keeps them.
ctype_value(type, v) == IF type = "c_uint16" THEN word(v) ELSE v

\* The parameters of a new partner (test_get_param).
DefaultParams ==
    [n \in ParamNumbers |->
        IF n = RemotePort THEN 102 ELSE IF n = PingTimeout THEN 750
        ELSE IF n = SrcRef THEN 256 ELSE 0]

NoValue == -1
NoSet == [n \in ParamNumbers |-> NoValue]

\* A new engine object: stopped, nothing registered, no job, counters at zero.
FreshObject(act) ==
    /\ active' = act
    /\ status' = 0
    /\ cfg' = NoCfg
    /\ job' = NoJob
    /\ reg_recv' = NULL
    /\ reg_send' = NULL
    /\ stats' = ZeroStats
    /\ wire_in' = <<>>
    /\ params' = DefaultParams
    /\ last_set' = NoSet

\* The engine's answers to a call on a live object, where the contract leaves
\* the answer open: success or some failure.  A handle that designates no
\* live object is answered with the invalid-call sentinel.
AnyCode == {0, errOther}
EngineCodes(codes) == IF Live(pointer) THEN codes ELSE {invalid_call}

\* The role decides what a started partner does: an active one connects, a
\* passive one waits for its peer.
Running(act) == IF act THEN 1 ELSE 2

\* The counters grow while their sum stays within MaxStat; a running send job
\* keeps room for its failure.
AddStat(i, n) == [stats EXCEPT ![i] = @ + n]
Reserved == IF job.state = "pending" THEN 1 ELSE 0
Room(n) == stats[1] + stats[2] + stats[3] + stats[4] + Reserved + n <= MaxStat

\* ------------------------------------------------- the Session's helpers
\* snap7.common.check_error: a non-zero code is raised as the generic failure.
check_error(code) == IF code # 0 THEN "EngineFailure" ELSE "ok"

\* An address string is modelled by the sequence of the numbers between its dots.
\* snap7.common.ipv4 matches four numbers of 0..255.
ipv4_match(ip) == Len(ip) = 4 /\ \A i \in 1..4 : ip[i] \in 0..255

\* The arguments start_to is called with: those of the tests, and malformed ones.
StartArgs ==
    { <<(<<0, 0, 0, 0>>), (<<127, 0, 0, 1>>), 4098, 4098>>,
      <<(<<0, 0, 0, 0>>), (<<0, 0, 0, 0>>), 0, 65536>>,
      <<(<<999, 1, 1, 1>>), (<<127, 0, 0, 1>>), 4098, 4098>>,
      <<(<<0, 0, 0, 0>>), (<<1, 2, 3>>), 4098, 4098>> }

\* ------------------------------------------------------------ payloads
Bytes == {1, 2}
Fill(n, b) == [i \in 1..n |-> b]
\* The routing id a payload is sent with: the default, or the largest one.
Rid(b) == IF b = 1 THEN 1 ELSE 2147483647

\* A bytearray the senders are given, and its routing id.  The senders are also
\* given payloads at the capacity and right below it; the link does not carry
\* them, and they are given by their length alone.
Data(size, bytes, rid) == [size |-> size, bytes |-> bytes, rid |-> rid]
SendData ==
    {Data(n, Fill(n, b), Rid(b)) : n \in 0..MaxLen, b \in Bytes}
    \cup {Data(n, <<>>, 1) : n \in {buffer_size - 1, buffer_size}}

\* A bytearray of buffer_size bytes is kept as the bytes written so far: the
\* bytes behind them are still the zeros it was created with.
Prefix(buf, n) == [i \in 1..n |-> IF i <= Len(buf) THEN buf[i] ELSE 0]
\* The engine writes a payload at the start of a buffer.
Write(buf, data) == data \o SubSeq(buf, Len(data) + 1, Len(buf))

\* A payload handed to the caller is a new object holding its own bytes, or
\* a view of `len` bytes of the Receive Buffer.
Owned(bytes) == [kind |-> "owned", bytes |-> bytes, len |-> Len(bytes)]
View(n) == [kind |-> "view", bytes |-> <<>>, len |-> n]
\* The bytes the caller reads in a payload, with the Receive Buffer being `buf`.
Deref(p, buf) == IF p.kind = "owned" THEN p.bytes ELSE Prefix(buf, p.len)

\* A slice that is a view of the Receive Buffer, as a memoryview would be.
slice_view(buf, n) == View(n)

\* A slice that takes every byte written to the buffer, not the first n.
slice_whole(buf, n) == Owned(buf)

\* self._recv_buffer[0:size.value]: slicing a bytearray makes a new bytearray.
slice(buf, n) == Owned(Prefix(buf, n))

\* The caller holds one delivered payload, with the bytes it read in it when
\* it was handed it: it keeps the one it holds, or takes the new one.
Keep(h, p, buf) == {<<[payload |-> p, bytes |-> Deref(p, buf)]>>} \cup ({h} \ {<<>>})

\* The engine has one received packet at a time.  A packet the peer echoes: the
\* routing id and bytes the engine was given, and
\* (for the round trip) the routing id and payload the sender was called with.
Packet(rid, data, sent) == [rid |-> rid, data |-> data, sent |-> sent]

\* --------------------------------------------------------- lifecycle
\* Partner(): the state after __init__, which calls create(active=False).
Init ==
    /\ alive = TRUE
    /\ active = FALSE
    /\ pointer = 1
    /\ objs = [h \in Handles |-> IF h = 1 THEN [state |-> "live", frees |-> 0]
                                 ELSE [state |-> "unallocated", frees |-> 0]]
    /\ recv_buffer = <<>>
    /\ recv_callback = NULL
    /\ send_callback = NULL
    /\ pc = "idle"
    /\ ret = Result("__init__", <<>>, "ok", NULL, <<Call("Par_Create", NULL)>>)
    /\ held = <<>>
    /\ status = 0
    /\ cfg = NoCfg
    /\ job = NoJob
    /\ reg_recv = NULL
    /\ reg_send = NULL
    /\ stats = ZeroStats
    /\ wire_in = <<>>
    /\ adapters = {}
    /\ params = DefaultParams
    /\ last_set = NoSet

\* The caller's thread can call a method.
Callable == alive /\ pc = "idle"

\* create overwrites self._pointer with the handle of a new engine object.
create ==
    /\ Callable
    /\ \E act \in BOOLEAN, h \in FreshHandles :
        /\ \A g \in FreshHandles : h <= g
        /\ objs' = [objs EXCEPT ![h].state = "live"]
        /\ pointer' = h
        /\ FreshObject(act)
        /\ ret' = Result("create", <<act>>, "ok", NULL, <<Call("Par_Create", NULL)>>)
    /\ UNCHANGED <<alive, recv_buffer, recv_callback, send_callback, pc, held, adapters>>

\* Par_Destroy(S7Object*) on a reference holding `h`, the engine answering
\* `code`: <<result, value left in the reference>>.  A null handle is a no-op.
Par_Destroy(h, code) ==
    IF h = NULL THEN <<0, NULL>>
    ELSE IF code = 0 THEN <<0, NULL>>
    ELSE <<code, h>>

\* The engine's objects after that call: the object is released, whatever
\* its state was.
Released(h, code) ==
    IF h # NULL /\ code = 0
    THEN [objs EXCEPT ![h].state = "released", ![h].frees = @ + 1]
    ELSE objs

\* destroy, lines 204-206: self._library is set, so Par_Destroy is called with
\* a reference to self._pointer, and its result is returned.
destroy_call(op) ==
    \E code \in AnyCode :
        LET r == Par_Destroy(pointer, code) IN
        /\ objs' = Released(pointer, code)
        /\ pointer' = r[2]
        /\ ret' = Result(op, <<>>, "ok", r[1], <<Call("Par_Destroy", pointer)>>)
        /\ IF Live(pointer) /\ code = 0
           THEN FreshObject(FALSE)
           ELSE UNCHANGED <<objVars, wire_in, paramVars>>

\* destroy with the handle passed by value: the engine cannot null it.
destroy_by_value ==
    /\ Callable
    /\ \E code \in AnyCode :
        /\ objs' = Released(pointer, code)
        /\ pointer' = pointer
        /\ ret' = Result("destroy", <<>>, "ok", Par_Destroy(pointer, code)[1],
                         <<Call("Par_Destroy", pointer)>>)
        /\ IF Live(pointer) /\ code = 0
           THEN FreshObject(FALSE)
           ELSE UNCHANGED <<objVars, wire_in, paramVars>>
    /\ UNCHANGED <<alive, recv_buffer, recv_callback, send_callback, pc, held, adapters>>

destroy ==
    /\ Callable
    /\ destroy_call("destroy")
    /\ UNCHANGED <<alive, recv_buffer, recv_callback, send_callback, pc, held, adapters>>

\* __del__ that does not call destroy.
del_skips_destroy ==
    /\ Callable
    /\ alive' = FALSE
    /\ ret' = Result("__del__", <<>>, "ok", NULL, <<>>)
    /\ UNCHANGED <<pointer, recv_buffer, recv_callback, send_callback, pc, held,
                   objs, objVars, wire_in, adapters>>
    /\ UNCHANGED paramVars

\* __del__: the automatic teardown calls destroy; the object is gone after it.
del ==
    /\ Callable
    /\ destroy_call("__del__")
    /\ alive' = FALSE
    /\ UNCHANGED <<recv_buffer, recv_callback, send_callback, pc, held, adapters>>

\* start_to that checks local_ip only.
start_to_check_local_only(local_ip, remote_ip) ==
    IF ~ipv4_match(local_ip) THEN "InvalidAddress" ELSE "ok"

\* start_to, lines 364-367: which address check fails first, if any.
start_to_check(local_ip, remote_ip) ==
    IF ~ipv4_match(local_ip) THEN "InvalidAddress"
    ELSE IF ~ipv4_match(remote_ip) THEN "InvalidAddress"
    ELSE "ok"

\* A start_to that hands the engine the two addresses in the wrong order.
start_to_args_swapped(a) == <<a[2], a[1], word(a[3]), word(a[4])>>

\* Lines 369-371: local_ip.encode(), remote_ip.encode(), word(local_tsap),
\* word(remote_tsap): what the engine is given.
start_to_args(a) == <<a[1], a[2], word(a[3]), word(a[4])>>

start_to ==
    /\ Callable
    /\ \E a \in StartArgs :
        IF start_to_check(a[1], a[2]) # "ok"
        THEN /\ ret' = Result("start_to", a, start_to_check(a[1], a[2]), NULL, <<>>)
             /\ UNCHANGED objVars
        ELSE \E code \in EngineCodes(AnyCode) :
             /\ ret' = Result("start_to", a, check_error(code), code,
                              <<Call("Par_StartTo", pointer)>>)
             /\ IF code = 0
                THEN /\ cfg' = start_to_args(a)
                     /\ status' = Running(active)
                     /\ UNCHANGED <<active, job, reg_recv, reg_send, stats>>
                ELSE UNCHANGED objVars
    /\ UNCHANGED <<sessVars, objs, wire_in, adapters>>
    /\ UNCHANGED paramVars

start ==
    /\ Callable
    /\ \E code \in EngineCodes(AnyCode) :
        /\ ret' = Result("start", <<>>, check_error(code), code,
                         <<Call("Par_Start", pointer)>>)
        /\ IF code = 0
           THEN /\ status' = (IF status = 3 THEN 3 ELSE Running(active))
                /\ UNCHANGED <<active, cfg, job, reg_recv, reg_send, stats>>
           ELSE UNCHANGED objVars
    /\ UNCHANGED <<sessVars, objs, wire_in, adapters>>
    /\ UNCHANGED paramVars

\* stop returns the engine's code and checks nothing.  Stopping closes the link
\* and aborts the send job in flight.
stop ==
    /\ Callable
    /\ \E code \in EngineCodes(AnyCode) :
        /\ ret' = Result("stop", <<>>, "ok", code, <<Call("Par_Stop", pointer)>>)
        /\ IF code = 0
           THEN /\ status' = 0
                /\ job' = (IF job.state = "pending" THEN NoJob ELSE job)
                /\ wire_in' = <<>>
                /\ UNCHANGED <<active, cfg, reg_recv, reg_send, stats>>
           ELSE UNCHANGED <<objVars, wire_in>>
    /\ UNCHANGED <<sessVars, objs, adapters>>
    /\ UNCHANGED paramVars

get_status ==
    /\ Callable
    /\ \E code \in EngineCodes({0}) :
        ret' = Result("get_status", <<>>, check_error(code),
                      IF code = 0 THEN status ELSE NULL,
                      <<Call("Par_GetStatus", pointer)>>)
    /\ UNCHANGED <<sessVars, objs, objVars, wire_in, adapters>>
    /\ UNCHANGED paramVars

\* ------------------------------------------------- the engine's worker
\* The peer connects (or accepts the connection): the link is up.
PeerConnect ==
    /\ Live(pointer)
    /\ status \in {1, 2}
    /\ status' = 3
    /\ ret' = Result("PeerConnect", <<>>, "ok", NULL, <<>>)
    /\ UNCHANGED <<sessVars, objs, active, cfg, job, reg_recv, reg_send, stats,
                   wire_in, adapters>>
    /\ UNCHANGED paramVars

\* The peer goes away: the partner is running without a link again.
PeerDisconnect ==
    /\ Live(pointer)
    /\ status = 3
    /\ status' = Running(active)
    /\ wire_in' = <<>>
    /\ ret' = Result("PeerDisconnect", <<>>, "ok", NULL, <<>>)
    /\ UNCHANGED <<sessVars, objs, active, cfg, job, reg_recv, reg_send, stats,
                   adapters>>
    /\ UNCHANGED paramVars

\* --------------------------------------------------------- synchronous
\* The size check with > in the place of >=.
too_big_off_by_one(size) == size > buffer_size

\* len(data) >= snap7.types.buffer_size
too_big(size) == size >= buffer_size

\* Par_BSend on a live object: without a link, or with a job running, the send
\* is refused; else the packet reaches the peer, or the send times out or fails.
Linked == status = 3 /\ job.state # "pending"
BSendCodes(size) ==
    IF ~Linked THEN {errOther}
    ELSE (IF size <= MaxLen /\ wire_in = <<>> /\ Room(size) THEN {0} ELSE {})
         \cup (IF Room(1) THEN {err_Par_Send_Timeout, errOther} ELSE {})

\* A b_send that reports every failure as the timeout.
b_send_outcome_all_timeouts(result) ==
    IF result = 0 THEN "ok" ELSE "SendTimeout"

\* b_send, lines 133-137: the outcome for an engine result.
b_send_outcome(result) ==
    IF result = err_Par_Send_Timeout THEN "SendTimeout" ELSE check_error(result)

\* A send on a linked object is a job that is done when the call returns
\* (test_check_as_b_send_completion); the peer echoes what it was sent.
b_send ==
    /\ Callable
    /\ \E d \in SendData :
        IF too_big(d.size)
        THEN /\ ret' = Result("b_send", <<d.size>>, "PayloadTooLarge", NULL, <<>>)
             /\ UNCHANGED <<job, stats, wire_in>>
        ELSE \E result \in EngineCodes(BSendCodes(d.size)) :
             /\ ret' = Result("b_send", <<d.size>>, b_send_outcome(result), result,
                              <<Call("Par_BSend", pointer)>>)
             /\ IF ~Live(pointer) \/ ~Linked
                THEN UNCHANGED <<job, stats, wire_in>>
                ELSE /\ job' = DoneJob("b_send", result)
                     /\ stats' = IF result = 0 THEN AddStat(1, d.size) ELSE AddStat(3, 1)
                     /\ wire_in' = IF result = 0
                                   THEN Append(wire_in,
                                               Packet(d.rid, d.bytes, <<d.rid, d.bytes>>))
                                   ELSE wire_in
    /\ UNCHANGED <<sessVars, objs, active, status, cfg, reg_recv, reg_send, adapters>>
    /\ UNCHANGED paramVars

\* Par_BRecv on a live object: a packet that arrived is written to the buffer,
\* or the receive fails; without a packet the call ends with the timeout.
BRecvCodes ==
    IF wire_in = <<>> THEN {err_Par_Recv_Timeout}
    ELSE (IF Room(Len(Head(wire_in).data)) THEN {0} ELSE {})
         \cup (IF Room(1) THEN {errOther} ELSE {})

\* A b_recv that compares the result with the timeout code of the sends.
b_recv_outcome_send_code(result) ==
    IF result = err_Par_Send_Timeout THEN "RecvTimeout" ELSE check_error(result)

\* b_recv, lines 101-106: the outcome for an engine result.
b_recv_outcome(result) ==
    IF result = err_Par_Recv_Timeout THEN "RecvTimeout" ELSE check_error(result)

\* Lines 106 and 162: what a receive returns, the engine having set rid and size.
received(buf, rid, size) == <<rid, slice(buf, size)>>

\* The engine delivers the first packet into the Receive Buffer and the caller
\* is returned `op`'s value; ret.args is what the sender was called with.
Delivered(op, calls) ==
    LET pkt == Head(wire_in)
        buf == Write(recv_buffer, pkt.data)
        val == received(buf, pkt.rid, Len(pkt.data)) IN
    /\ recv_buffer' = buf
    /\ wire_in' = Tail(wire_in)
    /\ stats' = AddStat(2, Len(pkt.data))
    /\ held' \in Keep(held, val[2], buf)
    /\ ret' = Result(op, pkt.sent, "ok", val, calls)

b_recv ==
    /\ Callable
    /\ \E result \in EngineCodes(BRecvCodes) :
        IF result = 0
        THEN Delivered("b_recv", <<Call("Par_BRecv", pointer)>>)
        ELSE /\ ret' = Result("b_recv", <<>>, b_recv_outcome(result), NULL,
                              <<Call("Par_BRecv", pointer)>>)
             /\ stats' = IF result = errOther THEN AddStat(4, 1) ELSE stats
             /\ UNCHANGED <<recv_buffer, held, wire_in>>
    /\ UNCHANGED <<alive, pointer, recv_callback, send_callback, pc, objs, active,
                   status, cfg, job, reg_recv, reg_send, adapters>>
    /\ UNCHANGED paramVars

\* -------------------------------------------------------- asynchronous
\* Par_AsBSend on a live object: refused while a job runs, else accepted or
\* refused.  An accepted job keeps room in the counters for its failure.
AsBSendCodes ==
    IF job.state = "pending" THEN {errOther}
    ELSE (IF Room(1) THEN {0} ELSE {}) \cup {errOther}

as_b_send ==
    /\ Callable
    /\ \E d \in SendData :
        IF too_big(d.size)
        THEN /\ ret' = Result("as_b_send", <<d.size>>, "PayloadTooLarge", NULL, <<>>)
             /\ UNCHANGED job
        ELSE \E result \in EngineCodes(AsBSendCodes) :
             /\ ret' = Result("as_b_send", <<d.size>>, check_error(result), result,
                              <<Call("Par_AsBSend", pointer)>>)
             /\ job' = IF result = 0
                       THEN [state |-> "pending", by |-> "as_b_send", result |-> 0,
                             rid |-> d.rid, size |-> d.size, data |-> d.bytes]
                       ELSE job
    /\ UNCHANGED <<sessVars, objs, active, status, cfg, reg_recv, reg_send, stats,
                   wire_in, adapters>>
    /\ UNCHANGED paramVars

\* Par_CheckAsBSendCompletion: <<result, op_result>>.
Par_CheckAsBSendCompletion ==
    IF ~Live(pointer) \/ job.state = "none" THEN <<invalid_call, 0>>
    ELSE IF job.state = "pending" THEN <<job_pending, 0>>
    ELSE <<0, job.result>>

\* A poll without the branch for the invalid-call sentinel.
send_completion_no_sentinel(result, op_result) ==
    IF result = 0
    THEN (IF check_error(op_result) = "ok" THEN <<"Done", TRUE>>
          ELSE <<check_error(op_result), NULL>>)
    ELSE <<"Pending", FALSE>>

\* A poll that does not check the job's result.
send_completion_ignores_op_result(result, op_result) ==
    IF result = invalid_call THEN <<"InvalidState", NULL>>
    ELSE IF result = 0 THEN <<"Done", TRUE>>
    ELSE <<"Pending", FALSE>>

\* check_as_b_send_completion, lines 179-187: <<outcome, value>>.
send_completion(result, op_result) ==
    IF result = invalid_call THEN <<"InvalidState", NULL>>
    ELSE IF result = 0
         THEN (IF check_error(op_result) = "ok" THEN <<"Done", TRUE>>
               ELSE <<check_error(op_result), NULL>>)
         ELSE <<"Pending", FALSE>>

\* ret.args is the job the engine had when it was polled, and its answer.
check_as_b_send_completion ==
    /\ Callable
    /\ LET r == Par_CheckAsBSendCompletion
           o == send_completion(r[1], r[2]) IN
        ret' = Result("check_as_b_send_completion",
                      <<job.state, job.by, job.result, r[1]>>,
                      o[1], o[2], <<Call("Par_CheckAsBSendCompletion", pointer)>>)
    /\ UNCHANGED <<sessVars, objs, objVars, wire_in, adapters>>
    /\ UNCHANGED paramVars

\* Par_CheckAsBRecvCompletion on a live object: <<result, op_result>>.
CheckAsBRecvCodes ==
    IF wire_in = <<>> THEN {<<job_pending, 0>>}
    ELSE (IF Room(Len(Head(wire_in).data)) THEN {<<0, 0>>} ELSE {})
         \cup (IF Room(1) THEN {<<0, errOther>>} ELSE {})

\* A poll that takes every answer but "complete" for the invalid call.
recv_completion_raises_when_idle(result) ==
    IF result = 0 THEN "complete" ELSE "InvalidState"

\* check_as_b_recv_completion, lines 157-164: the branch for an engine result.
recv_completion(result) ==
    IF result = invalid_call THEN "InvalidState"
    ELSE IF result = 0 THEN "complete"
    ELSE "NoPacket"

check_as_b_recv_completion ==
    /\ Callable
    /\ \E r \in (IF Live(pointer) THEN CheckAsBRecvCodes ELSE {<<invalid_call, 0>>}) :
        LET calls == <<Call("Par_CheckAsBRecvCompletion", pointer)>> IN
        IF recv_completion(r[1]) = "InvalidState"
        THEN /\ ret' = Result("check_as_b_recv_completion", <<>>, "InvalidState",
                              NULL, calls)
             /\ UNCHANGED <<recv_buffer, held, stats, wire_in>>
        ELSE IF recv_completion(r[1]) = "complete"
        THEN IF check_error(r[2]) = "ok"
             THEN Delivered("check_as_b_recv_completion", calls)
             ELSE /\ ret' = Result("check_as_b_recv_completion", <<>>,
                                   check_error(r[2]), NULL, calls)
                  /\ stats' = AddStat(4, 1)
                  /\ UNCHANGED <<recv_buffer, held, wire_in>>
        ELSE /\ ret' = Result("check_as_b_recv_completion", <<>>, "NoPacket", FALSE,
                              calls)
             /\ UNCHANGED <<recv_buffer, held, stats, wire_in>>
    /\ UNCHANGED <<alive, pointer, recv_callback, send_callback, pc, objs, active,
                   status, cfg, job, reg_recv, reg_send, adapters>>
    /\ UNCHANGED paramVars

\* ------------------------------------------------------ callback bridge
\* A call of the consumer: its three (recv) or one (send) arguments.
Consumer(args) == [consumer |-> args]

\* A wrapper that does not tell the consumer of a failed delivery.
wrapper_drops_failures(op_result, rid, mem, size) ==
    IF op_result = 0
    THEN <<Consumer(<<op_result, rid, Owned(Prefix(mem, size))>>)>>
    ELSE <<>>

\* set_recv_callback.wrapper, lines 313-318.  `mem` is the engine's memory at
\* data_pointer: the payload, followed by whatever the engine has behind it.
wrapper(op_result, rid, mem, size) ==
    IF op_result = 0
    THEN <<Consumer(<<op_result, rid, Owned(Prefix(mem, size))>>)>>
    ELSE <<Consumer(<<op_result, NULL, NULL>>)>>

\* The lambda of set_send_callback, line 338.
send_wrapper(op_result) == <<Consumer(<<op_result>>)>>

\* The Session holds a reference to the adapter.
KeptAlive(a) == a # NULL /\ alive /\ a \in {recv_callback, send_callback}

NewAdapter == Cardinality(adapters) + 1

\* Line 321: the new adapter replaces the one self._recv_callback held.
set_recv_callback_adapter ==
    /\ Callable
    /\ NewAdapter <= MaxAdapters
    /\ recv_callback' = NewAdapter
    /\ adapters' = adapters \cup {NewAdapter}
    /\ pc' = "set_recv_callback"
    /\ ret' = Result("set_recv_callback", <<>>, "running", NULL, <<>>)
    /\ UNCHANGED <<alive, pointer, recv_buffer, send_callback, held, objs, objVars,
                   wire_in>>
    /\ UNCHANGED paramVars

\* Line 323: the engine is given the adapter.
set_recv_callback_register ==
    /\ alive
    /\ pc = "set_recv_callback"
    /\ \E code \in EngineCodes(AnyCode) :
        /\ reg_recv' = IF code = 0 THEN recv_callback ELSE reg_recv
        /\ ret' = Result("set_recv_callback", <<>>, check_error(code), code,
                         <<Call("Par_SetRecvCallback", pointer)>>)
    /\ pc' = "idle"
    /\ UNCHANGED <<alive, pointer, recv_buffer, recv_callback, send_callback, held,
                   objs, active, status, cfg, job, reg_send, stats, wire_in, adapters>>
    /\ UNCHANGED paramVars

\* Line 338: the new adapter replaces the one self._send_callback held.
set_send_callback_adapter ==
    /\ Callable
    /\ NewAdapter <= MaxAdapters
    /\ send_callback' = NewAdapter
    /\ adapters' = adapters \cup {NewAdapter}
    /\ pc' = "set_send_callback"
    /\ ret' = Result("set_send_callback", <<>>, "running", NULL, <<>>)
    /\ UNCHANGED <<alive, pointer, recv_buffer, recv_callback, held, objs, objVars,
                   wire_in>>
    /\ UNCHANGED paramVars

\* Line 339: the engine is given the adapter.
set_send_callback_register ==
    /\ alive
    /\ pc = "set_send_callback"
    /\ \E code \in EngineCodes(AnyCode) :
        /\ reg_send' = IF code = 0 THEN send_callback ELSE reg_send
        /\ ret' = Result("set_send_callback", <<>>, check_error(code), code,
                         <<Call("Par_SetSendCallback", pointer)>>)
    /\ pc' = "idle"
    /\ UNCHANGED <<alive, pointer, recv_buffer, recv_callback, send_callback, held,
                   objs, active, status, cfg, job, reg_recv, stats, wire_in, adapters>>
    /\ UNCHANGED paramVars

\* ------------------------------------------- the engine's worker, continued
\* What the engine's memory holds behind a payload it hands to the recv adapter.
Tails == {<<>>, <<1>>}

\* Invoking an adapter the Session no longer keeps alive is undefined: the
\* process may crash, or the freed adapter may still run.
Invoke(adapter, calls) == IF KeptAlive(adapter) THEN {calls} ELSE {<<>>, calls}

\* A packet arrives while a recv adapter is registered: the engine invokes it.
\* ret.args is the event and whether the adapter was alive; ret.value is what
\* the consumer was called with.
RecvEvent ==
    /\ Live(pointer)
    /\ reg_recv # NULL
    /\ wire_in # <<>>
    /\ LET pkt == Head(wire_in) IN
       \E op_result \in (IF Room(Len(pkt.data)) THEN {0} ELSE {})
                        \cup (IF Room(1) THEN {errOther} ELSE {}),
          tail \in Tails :
       \E seen \in Invoke(reg_recv,
                          wrapper(op_result, pkt.rid, pkt.data \o tail, Len(pkt.data))) :
        /\ wire_in' = Tail(wire_in)
        /\ stats' = IF op_result = 0 THEN AddStat(2, Len(pkt.data)) ELSE AddStat(4, 1)
        /\ held' \in IF seen # <<>> /\ op_result = 0
                      THEN Keep(held, seen[1].consumer[3], recv_buffer)
                      ELSE {held}
        /\ ret' = Result("RecvEvent",
                         <<op_result, pkt.rid, pkt.data, KeptAlive(reg_recv)>>,
                         "ok", seen, <<>>)
    /\ UNCHANGED <<alive, pointer, recv_buffer, recv_callback, send_callback, pc,
                   objs, active, status, cfg, job, reg_recv, reg_send, adapters>>
    /\ UNCHANGED paramVars

\* The send job ends: delivered to the peer, timed out or failed.  The engine
\* then invokes the registered send adapter with the job's result.
JobCodes ==
    (IF status = 3 /\ job.size <= MaxLen /\ wire_in = <<>>
        /\ Room(job.size - 1) THEN {0} ELSE {})
    \cup {err_Par_Send_Timeout, errOther}

JobComplete ==
    /\ Live(pointer)
    /\ job.state = "pending"
    /\ \E code \in JobCodes :
       \E seen \in (IF reg_send = NULL THEN {<<>>}
                    ELSE Invoke(reg_send, send_wrapper(code))) :
        /\ job' = DoneJob("as_b_send", code)
        /\ stats' = IF code = 0 THEN AddStat(1, job.size) ELSE AddStat(3, 1)
        /\ wire_in' = IF code = 0
                      THEN Append(wire_in,
                                  Packet(job.rid, job.data, <<job.rid, job.data>>))
                      ELSE wire_in
        /\ ret' = Result("JobComplete", <<code, KeptAlive(reg_send)>>, "ok", seen, <<>>)
    /\ UNCHANGED <<sessVars, objs, active, status, cfg, reg_recv, reg_send, adapters>>
    /\ UNCHANGED paramVars


\* ------------------------------------------------- waiting for the send job
\* Par_WaitAsBSendCompletion on a live object.  Without a peer no job comes to
\* an end and the wait runs into its timeout; a job still running when the
\* timeout elapses gives the timeout too; a job that ended gives its result;
\* with no job at all the wait fails (test_wait_as_b_send_completion).
WaitCodes ==
    IF status # 3 \/ job.state = "pending" THEN {err_Par_Send_Timeout}
    ELSE IF job.state = "done" THEN {job.result}
    ELSE {err_Par_Send_Timeout, errOther}

\* A wait that has no branch of its own for the timeout code.
wait_outcome_no_timeout_branch(result) == check_error(result)

\* wait_as_b_send_completion, lines 395-399, and error_wrap on what it returns.
wait_outcome(result) ==
    IF result = err_Par_Send_Timeout THEN "SendTimeout" ELSE check_error(result)

\* ret.args is whether the handle was live, and the status the engine had.
wait_as_b_send_completion ==
    /\ Callable
    /\ \E result \in EngineCodes(WaitCodes) :
        ret' = Result("wait_as_b_send_completion", <<Live(pointer), status>>,
                      wait_outcome(result), result,
                      <<Call("Par_WaitAsBSendCompletion", pointer)>>)
    /\ UNCHANGED <<sessVars, objs, objVars, wire_in, adapters>>
    /\ UNCHANGED paramVars

\* -------------------------------------------------------------- parameters
\* The engine refuses a parameter a partner does not have, and refuses to set
\* the remote port of a partner that is started (test_get_param,
\* test_set_param).
Restricted(op, n) ==
    \/ n = MaxClients
    \/ op = "set_param" /\ n = RemotePort /\ status # 0

\* Par_GetParam / Par_SetParam on a live object.
ParamCodes(op, n) == IF Restricted(op, n) THEN {errOther} ELSE {0}

\* The values set_param is given: two that every parameter type holds, and
\* one that a c_uint16 does not.
ParamValues == {128, 800, 65664}

\* check_error on the engine's code, lines 230 and 30-33.
param_outcome(code) == IF check_error(code) = "ok" THEN "ok" ELSE "ParameterError"

\* set_param, lines 282-284: the value goes to the engine as type_(value).
set_param ==
    /\ Callable
    /\ \E n \in ParamNumbers, v \in ParamValues :
       \E code \in EngineCodes(ParamCodes("set_param", n)) :
        /\ ret' = Result("set_param", <<n, v>>, param_outcome(code), code,
                         <<Call("Par_SetParam", pointer)>>)
        /\ IF code = 0
           THEN /\ params' = [params EXCEPT ![n] = ctype_value(param_types(n), v)]
                /\ last_set' = [last_set EXCEPT ![n] = v]
           ELSE UNCHANGED paramVars
    /\ UNCHANGED <<sessVars, objs, objVars, wire_in, adapters>>

\* A get_param that returns the engine's code, as set_param does.
get_param_returns_code(code, value) ==
    IF check_error(code) = "ok" THEN <<"ok", code>> ELSE <<"ParameterError", NULL>>

\* get_param, lines 230-231: <<outcome, value returned>>.
get_param_return(code, value) ==
    IF check_error(code) = "ok" THEN <<"ok", value>> ELSE <<"ParameterError", NULL>>

\* get_param, lines 226-231: the engine writes the parameter into a type_().
get_param ==
    /\ Callable
    /\ \E n \in ParamNumbers :
       \E code \in EngineCodes(ParamCodes("get_param", n)) :
        LET r == get_param_return(code, ctype_value(param_types(n), params[n])) IN
        ret' = Result("get_param", <<n>>, r[1], r[2],
                      <<Call("Par_GetParam", pointer)>>)
    /\ UNCHANGED <<sessVars, objs, objVars, wire_in, adapters, paramVars>>
\* ------------------------------------------------------ specifications
\* The life cycle of a Session and of its link.
Next ==
    \/ create
    \/ destroy
    \/ del
    \/ start_to
    \/ start
    \/ stop
    \/ get_status
    \/ PeerConnect
    \/ PeerDisconnect

Spec == Init /\ [][Next]_vars

\* Sending, synchronous and asynchronous, and the completion of the send job.
NextSend ==
    \/ start
    \/ stop
    \/ destroy
    \/ PeerConnect
    \/ b_send
    \/ as_b_send
    \/ check_as_b_send_completion
    \/ JobComplete

SpecSend == Init /\ [][NextSend]_vars

\* The engine ends every send job (its send timeout bounds it), and the caller
\* goes on polling.
FairSend ==
    /\ SpecSend
    /\ WF_vars(JobComplete)
    /\ WF_vars(check_as_b_send_completion)

\* The round trip: what is sent, synchronously or asynchronously, the peer
\* echoes, and the Session receives it by blocking or by polling.
NextTransfer ==
    \/ start
    \/ PeerConnect
    \/ b_send
    \/ as_b_send
    \/ JobComplete
    \/ b_recv
    \/ check_as_b_recv_completion

SpecTransfer == Init /\ [][NextTransfer]_vars

\* Receiving what the peer echoes, in the three ways: blocking, polling and
\* the recv callback, which the engine's worker invokes.
NextRecv ==
    \/ start
    \/ PeerConnect
    \/ b_send
    \/ b_recv
    \/ check_as_b_recv_completion
    \/ set_recv_callback_adapter
    \/ set_recv_callback_register
    \/ RecvEvent

SpecRecv == Init /\ [][NextRecv]_vars

\* The callback bridge: registrations by the caller's thread, invocations by
\* the engine's worker.
NextBridge ==
    \/ start
    \/ destroy
    \/ PeerConnect
    \/ set_recv_callback_adapter
    \/ set_recv_callback_register
    \/ set_send_callback_adapter
    \/ set_send_callback_register
    \/ as_b_send
    \/ JobComplete
    \/ RecvEvent

SpecBridge == Init /\ [][NextBridge]_vars


\* Waiting for the send job, with the link coming up and going down.
NextWait ==
    \/ start
    \/ stop
    \/ destroy
    \/ PeerConnect
    \/ PeerDisconnect
    \/ as_b_send
    \/ JobComplete
    \/ wait_as_b_send_completion

SpecWait == Init /\ [][NextWait]_vars

\* Reading and writing parameters of a Session that is started and stopped.
NextParam ==
    \/ create
    \/ destroy
    \/ start
    \/ stop
    \/ set_param
    \/ get_param

SpecParam == Init /\ [][NextParam]_vars
\* ========================================================== properties
SendOps == {"b_send", "as_b_send"}
RecvOps == {"b_recv", "check_as_b_recv_completion"}
DestroyOps == {"destroy", "__del__"}

\* The handles of engine objects that were allocated and not released.
Unreleased == {h \in Handles : objs[h].state = "live"}

\* C1: no engine object is released more than once, whatever the sequence of
\* create, destroy and automatic teardown; destroy and the teardown end
\* without an error, and a destroy after a destroy hands the engine the null
\* handle, not the released one.
C1_ReleasedAtMostOnce ==
    /\ \A h \in Handles : objs[h].frees <= 1
    /\ ret.op \in DestroyOps =>
        /\ ret.outcome = "ok"
        /\ ret.calls[1].handle # NULL => objs[ret.calls[1].handle].frees <= 1

\* C1 witness: the teardown runs after an explicit destroy released the
\* handle: the engine is handed the null handle.
C1_Witness ==
    /\ ret.op = "__del__"
    /\ ret.calls = <<Call("Par_Destroy", NULL)>>
    /\ objs[1].state = "released"
    /\ objs[1].frees = 1

\* C2 as stated: once destroy or the teardown has run and the engine reported
\* the release, no allocated engine object remains unreleased.
C2_Original ==
    (ret.op \in DestroyOps /\ ret.value = 0) => Unreleased = {}

\* C2 amended: once destroy or the teardown has run and the engine reported
\* the release, the handle is null and the object it designated is released,
\* exactly once; no object is released twice; and an object whose handle
\* create() overwrote is never released.
C2_CurrentReleasedOnce ==
    /\ [](\A h \in Handles : /\ objs[h].frees <= 1
                             /\ objs[h].state = "released" <=> objs[h].frees = 1)
    /\ []((ret.op \in DestroyOps /\ ret.value = 0) =>
            /\ pointer = NULL
            /\ ret.calls[1].handle # NULL =>
                objs[ret.calls[1].handle].state = "released")
    /\ [][\A h \in Handles :
            (objs[h].state = "live" /\ h # pointer) => objs'[h].state = "live"]_vars

\* C2 witness: destroy released the second object of the Session; the first,
\* whose handle create() overwrote, is still allocated.
C2_Witness ==
    /\ ret.op = "destroy"
    /\ ret.value = 0
    /\ ret.calls = <<Call("Par_Destroy", 2)>>
    /\ objs[2].state = "released"
    /\ objs[1].state = "live"

Malformed(ip) == ~(Len(ip) = 4 /\ \A i \in 1..Len(ip) : ip[i] >= 0 /\ ip[i] <= 255)

\* C4: start_to with a malformed local or remote address ends with
\* InvalidAddress, makes no engine call and changes nothing: a Session that
\* was disconnected (status 0) still is.
C4_MalformedAddressFailsFast ==
    [][(ret'.op = "start_to" /\ (Malformed(ret'.args[1]) \/ Malformed(ret'.args[2]))) =>
        /\ ret'.outcome = "InvalidAddress"
        /\ ret'.calls = <<>>
        /\ status = 0 => status' = 0
        /\ UNCHANGED <<sessVars, objs, objVars, wire_in, adapters>>]_vars

\* C4 witness: start_to("0.0.0.0", "1.2.3", ...) failed on its remote address
\* on a Session that is disconnected.
C4_Witness ==
    /\ ret.op = "start_to"
    /\ ret.args[2] = <<1, 2, 3>>
    /\ ret.outcome = "InvalidAddress"
    /\ Live(pointer)
    /\ status = 0

\* C5 as stated: while the engine object lives, an adapter registered with the
\* engine is one the Session holds a reference to.
C5_RegisteredAdapterKeptAlive ==
    Live(pointer) =>
        /\ reg_recv # NULL => KeptAlive(reg_recv)
        /\ reg_send # NULL => KeptAlive(reg_send)

\* C6: an event the engine delivers to a recv adapter that is alive calls the
\* consumer exactly once: with (0, rid, an owned payload of the event's bytes)
\* when the event's result is 0, and with (code, None, None) when it is not.
C6_OneCallPerEvent ==
    (ret.op = "RecvEvent" /\ ret.args[4]) =>
        /\ Len(ret.value) = 1
        /\ ret.args[1] = 0 =>
            ret.value[1].consumer = <<0, ret.args[2], Owned(ret.args[3])>>
        /\ ret.args[1] # 0 =>
            ret.value[1].consumer = <<ret.args[1], NULL, NULL>>

\* C6 witness: a failed delivery reached the consumer of a live adapter as
\* (code, None, None).
C6_Witness ==
    /\ ret.op = "RecvEvent"
    /\ ret.args[1] = errOther
    /\ ret.args[4]
    /\ ret.value = <<Consumer(<<errOther, NULL, NULL>>)>>

\* C7: the bytes the caller reads in a payload it was handed are the bytes it
\* was handed, whatever was received, polled or delivered since.
C7_DeliveredPayloadOwned ==
    held # <<>> => Deref(held[1].payload, recv_buffer) = held[1].bytes

\* C7 witness: the caller holds the payload <<1>> a receive returned, and a
\* later receive has written <<2>> over it in the Receive Buffer.
C7_Witness ==
    /\ held # <<>>
    /\ held[1].bytes = <<1>>
    /\ recv_buffer = <<2>>
    /\ ret.op \in RecvOps
    /\ ret.outcome = "ok"

\* C8: a successful b_recv or check_as_b_recv_completion returns the routing id
\* and the payload the peer was sent with: same id, same length, same bytes.
C8_RoundTrip ==
    (ret.op \in RecvOps /\ ret.outcome = "ok") =>
        /\ ret.value[1] = ret.args[1]
        /\ ret.value[2].len = Len(ret.args[2])
        /\ Deref(ret.value[2], recv_buffer) = ret.args[2]

\* C8 witness: an empty payload with the largest routing id came back while the
\* Receive Buffer still held the byte of an earlier, longer payload.
C8_Witness ==
    /\ ret.op \in RecvOps
    /\ ret.outcome = "ok"
    /\ ret.args = <<2147483647, <<>>>>
    /\ ret.value = <<2147483647, Owned(<<>>)>>
    /\ Len(recv_buffer) = 1

SendPoll == ret.op = "check_as_b_send_completion"

\* C9 as stated: a poll of the send job while no asynchronous job is
\* outstanding (none was submitted, the last send was a synchronous b_send, or
\* the job is done) ends with InvalidState.
C9_Original ==
    (SendPoll /\ ret.args[1] # "pending") => ret.outcome = "InvalidState"

\* C9 amended: the poll ends with InvalidState exactly when the engine answers
\* with its invalid-call sentinel; after a send that finished, a synchronous
\* b_send included, the poll reports Done or the failure of that send.
C9_InvalidStateIsEngineSentinel ==
    SendPoll =>
        /\ ret.outcome = "InvalidState" <=> ret.args[4] = invalid_call
        /\ ret.args[1] = "done" => ret.outcome \in {"Done", "EngineFailure"}

\* C9 witness: the poll reports Done after a synchronous b_send, the only send
\* made.
C9_Witness ==
    /\ SendPoll
    /\ ret.args = <<"done", "b_send", 0, 0>>
    /\ ret.outcome = "Done"
    /\ ret.value = TRUE

\* A poll saw the asynchronous job finished.
Observed ==
    /\ SendPoll
    /\ ret.args[1] = "done"
    /\ ret.args[2] = "as_b_send"
    /\ ret.outcome \in {"Done", "EngineFailure"}

\* The job as_b_send started has finished and no later send has replaced it.
Finished == Live(pointer) /\ job.state = "done" /\ job.by = "as_b_send"

\* C10: a poll reports Pending while the job as_b_send started is running,
\* Done when it finished with result 0 and a failure when it finished with
\* another result; a job that runs comes to an end, and a job that finished
\* is followed by a poll that sees it finished, unless a later send replaces
\* it or the Session is stopped or destroyed first.
C10_PendingThenDone ==
    /\ [](SendPoll =>
            /\ ret.args[1] = "pending" =>
                (ret.outcome = "Pending" /\ ret.value = FALSE)
            /\ (ret.args[1] = "done" /\ ret.args[3] = 0) =>
                (ret.outcome = "Done" /\ ret.value = TRUE)
            /\ (ret.args[1] = "done" /\ ret.args[3] # 0) =>
                ret.outcome = "EngineFailure")
    /\ (job.state = "pending") ~> (job.state # "pending" \/ ~Live(pointer))
    /\ Finished ~> (Observed \/ ~Finished)

\* C10 witness: the poll reports Done for a job as_b_send started.
C10_Witness ==
    /\ SendPoll
    /\ ret.args = <<"done", "as_b_send", 0, 0>>
    /\ ret.outcome = "Done"
    /\ stats[1] > 0

WaitOp == ret.op = "wait_as_b_send_completion"

\* C11: wait_as_b_send_completion on a live Session whose link has no peer
\* (status other than 3) ends, and ends with SendTimeout: it does not return
\* normally and raises no other error.
C11_WaitWithoutPeerTimesOut ==
    (WaitOp /\ ret.args[1] /\ ret.args[2] # 3) =>
        /\ ret.outcome = "SendTimeout"
        /\ ret.value = err_Par_Send_Timeout

\* C11 witness: a job was started on a Session that is started and has no
\* peer, and the wait for it ended with SendTimeout.
C11_Witness ==
    /\ WaitOp
    /\ ret.args = <<TRUE, 2>>
    /\ job.state = "pending"
    /\ ret.outcome = "SendTimeout"

\* C12 as stated: an explicit destroy() to which the engine's Destroy reports
\* a non-zero result raises an error and does not return normally.
C12_DestroySurfacesFailure ==
    (ret.op = "destroy" /\ ret.value # 0) => ret.outcome # "ok"

\* The operations whose ret.value is the code the engine answered.
CodeOps == {"start", "start_to", "stop"}

\* C13 as stated: an operation outside the destruction path to which the
\* engine reports a non-zero result raises an error in that call and does not
\* return normally (here for start, start_to and stop).
C13_EngineFailureRaised ==
    (ret.op \in CodeOps /\ ret.calls # <<>> /\ ret.value # 0) => ret.outcome # "ok"

\* C14: a b_send that reached the engine ends in one of three ways, by the
\* engine's result: normally on 0, with SendTimeout on the send-timeout code
\* and on no other, and with the engine failure carrying the code on every
\* other result.
C14_BSendThreeOutcomes ==
    (ret.op = "b_send" /\ ret.calls # <<>>) =>
        /\ ret.outcome = "ok" <=> ret.value = 0
        /\ ret.outcome = "SendTimeout" <=> ret.value = err_Par_Send_Timeout
        /\ ret.outcome = "EngineFailure" <=> ret.value \notin {0, err_Par_Send_Timeout}

\* C14 witness: on a linked Session the engine answered b_send with a code that
\* is not the timeout, and b_send ended with the engine failure.
C14_Witness ==
    /\ ret.op = "b_send"
    /\ status = 3
    /\ ret.value = errOther
    /\ ret.outcome = "EngineFailure"

\* A value the parameter's type holds.
InRange(n, v) == param_types(n) = "c_uint16" => v \in 0..65535

\* C15: get_param(n) returns the value the last successful set_param(n, v) on
\* the engine object was given, when the parameter's type holds v; and a
\* get_param or set_param on a parameter the engine restricts ends with
\* ParameterError and leaves every parameter as it was.
C15_ParamRoundTrip ==
    /\ []((ret.op = "get_param" /\ ret.outcome = "ok"
           /\ last_set[ret.args[1]] # NoValue
           /\ InRange(ret.args[1], last_set[ret.args[1]])) =>
            ret.value = last_set[ret.args[1]])
    /\ [][(ret'.op \in {"get_param", "set_param"}
           /\ Restricted(ret'.op, ret'.args[1])) =>
            (ret'.outcome = "ParameterError" /\ params' = params)]_vars

\* C15 witness: get_param returned the 800 that set_param gave the source
\* reference, whose default is 256.
C15_Witness ==
    /\ ret.op = "get_param"
    /\ ret.args = <<SrcRef>>
    /\ last_set[SrcRef] = 800
    /\ ret.value = 800
    /\ status # 0

\* C16 as stated: destroy() on a Session whose handle is null makes no engine
\* call: the engine's Destroy is never handed the null handle.
C16_NullDestroyMakesNoCall ==
    ret.op = "destroy" =>
        \A i \in 1..Len(ret.calls) : ret.calls[i].handle # NULL

\* C17: a check_as_b_recv_completion on a live Session with no inbound packet
\* ends with NoPacket (False), raises nothing and changes nothing: not the
\* status, the counters, the send job, the Receive Buffer or the Session.
C17_IdlePollChangesNothing ==
    [][(ret'.op = "check_as_b_recv_completion" /\ Live(pointer) /\ wire_in = <<>>) =>
        /\ ret'.outcome = "NoPacket"
        /\ ret'.value = FALSE
        /\ UNCHANGED <<sessVars, objs, objVars, wire_in, adapters, paramVars>>]_vars

\* C17 witness: the poll found no packet on a linked Session that has
\* received before and has a send job running.
C17_Witness ==
    /\ ret.op = "check_as_b_recv_completion"
    /\ ret.outcome = "NoPacket"
    /\ status = 3
    /\ job.state = "pending"
    /\ stats[2] > 0
    /\ recv_buffer # <<>>

\* C18: a b_recv on a live Session ends.  With no packet to receive it ends
\* with RecvTimeout, returns nothing (not the payload an earlier receive left
\* in the Receive Buffer) and leaves the buffer as it was; with a packet it
\* returns that packet when the receive succeeds.
C18_BRecvTimeoutOrPacket ==
    [][(ret'.op = "b_recv" /\ Live(pointer)) =>
        IF wire_in = <<>>
        THEN /\ ret'.outcome = "RecvTimeout"
             /\ ret'.value = NULL
             /\ recv_buffer' = recv_buffer
             /\ held' = held
        ELSE /\ ret'.outcome \in {"ok", "EngineFailure"}
             /\ ret'.outcome = "ok" =>
                 ret'.value = <<Head(wire_in).rid, Owned(Head(wire_in).data)>>]_vars

\* C18 witness: b_recv timed out while the Receive Buffer still held the
\* payload of an earlier receive.
C18_Witness ==
    /\ ret.op = "b_recv"
    /\ ret.outcome = "RecvTimeout"
    /\ recv_buffer # <<>>
    /\ stats[2] > 0

\* A TSAP that a 16-bit word holds.
ValidTsap(t) == t \in 0..65535

C20_HandleNullOrLive ==
    /\ pointer = NULL \/ Live(pointer)
    /\ \A i \in 1..Len(ret.calls) :
        LET h == ret.calls[i].handle IN
        \/ h = NULL
        \/ Live(h)
        \/ ret.op \in DestroyOps /\ objs[h].state = "released" /\ objs[h].frees = 1

\* C20 witness: after destroy released the object, start was called and passed
\* the engine the null handle.
C20_Witness ==
    /\ ret.op = "start"
    /\ ret.calls = <<Call("Par_Start", NULL)>>
    /\ pointer = NULL
    /\ objs[1].state = "released"

====
